---- MODULE Spec2Model ----
(***************************************************************************)
(* GlobalSystemStateProvider (packages/ui/src/providers/                   *)
(* global-system-state.tsx): the status poller, the restart/shutdown       *)
(* actions, the render gate and the two re-authentication effects, with    *)
(* the backend, the network, the page (reload) and the clock as its        *)
(* environment.                                                            *)
(*                                                                         *)
(* One action is one event handler of the page together with the render    *)
(* and the effects it causes (React renders synchronously after a state    *)
(* or query-store update, so no other handler runs in between).            *)
(* The two setTimeout timers count down in ticks of TickMs, and the clock   *)
(* moves from one deadline to the next. The refetch interval and the       *)
(* network are not tied to the clock: a poll, a reply and a response may   *)
(* come at any time.                                                       *)
(***************************************************************************)
EXTENDS Integers, Sequences, FiniteSets, TLC

\* ------------------------------------------------------------------ bounds
\* Failed attempts of one status fetch that are retried before it gives up.
MaxRetry == 1
\* Logout timers pending at once.
MaxLogoutTimers == 2

\* ------------------------------------------------------- program constants
MS_PER_SECOND == 1000
TickMs == 1000
TriggeredPollMs == 500
IdlePollSeconds == 10
LogoutDelayMs == 1000
ShutdownTimerSeconds == 30

\* ------------------------------------------------------------------ values
Undefined == "undefined"
KnownStatus == {"running", "shutting-down", "restarting"}
\* "updating" stands for a value of the endpoint outside the three known ones.
Status == KnownStatus \cup {"updating"}
NoTimer == -1
NoMutation == [kind |-> "none", phase |-> "idle"]
\* The backend has taken the request; its answer is on the way.
Accepted == [kind |-> "none", phase |-> "ok"]

VARIABLES
    backend,                \* the backend: a Status it reports, or "down"
    mutation,               \* the restart/shutdown request: [kind, phase]
    inflight,               \* the status request: "none", "sent", "fail" or the Status replied
    sentBeforeAction,       \* the request in flight was sent before restart()/shutdown()
    data,                   \* systemStatusQ.data
    qError,                 \* systemStatusQ.isError (systemStatusQ.error is set)
    failureCount,           \* systemStatusQ.failureCount
    revertCount,            \* failureCount of the state a cancelled fetch reverts to
    refetchInterval,        \* the interval (ms) the observer polls at, or NoTimer
    triggered,
    shouldLogoutOnRunning,  \* persisted under 'should-logout-on-running'
    startShutdownTimer,
    shutdownComplete,
    prevRef,                \* usePreviousDistinct: the previous distinct status
    curRef,                 \* usePreviousDistinct: the status of the last render
    logoutTimers,           \* pending 1-second timers of the logout effect
    shutdownTimer,          \* the 30-second timer, or NoTimer
    sinceTimerStart,        \* ticks since the 30-second timer was started (capped)
    crashed,                \* the provider threw to the error boundary
    jwt,                    \* an auth token is stored
    everInvoked             \* restart()/shutdown() was called from this browser, in any page load

vars == <<backend, mutation, inflight, sentBeforeAction, data, qError, failureCount, revertCount,
          refetchInterval, triggered, shouldLogoutOnRunning, startShutdownTimer,
          shutdownComplete, prevRef, curRef, logoutTimers, shutdownTimer,
          sinceTimerStart, crashed, jwt, everInvoked>>

\* ------------------------------------------------------------ pure helpers
Ticks(ms) == ms \div TickMs

RefetchInterval(t) == IF t THEN TriggeredPollMs ELSE IdlePollSeconds * MS_PER_SECOND

LogoutTicks == Ticks(LogoutDelayMs)

\* The delay given in seconds where setTimeout takes milliseconds.
ShutdownTicksNoUnit == Ticks(ShutdownTimerSeconds)

ShutdownTicks == Ticks(ShutdownTimerSeconds * MS_PER_SECOND)

\* Where the count of the ticks since the timer's start stops.
ElapsedCap == Ticks(ShutdownTimerSeconds * MS_PER_SECOND)

\* usePreviousDistinct(status) ?? 'running'
PrevStatusOf(p) == IF p = Undefined THEN "running" ELSE p

prevStatus == PrevStatusOf(prevRef)

\* No masking of 'running' by the previous status.
StatusToShowUnmasked(t, d, p) == d

\* The previous status shown for every status once triggered.
StatusToShowWhileTriggered(t, d, p) == IF t = TRUE THEN PrevStatusOf(p) ELSE d

StatusToShowOf(t, d, p) == IF t = TRUE /\ d = "running" THEN PrevStatusOf(p) ELSE d

statusToShow == StatusToShowOf(triggered, data, prevRef)

\* status === 'loading': no data and no error yet
isLoading == data = Undefined /\ ~qError

\* The error thrown whether or not a transition was triggered.
ThrowsAlways(t, e) == e

\* The error thrown once a transition was triggered, and not before.
ThrowsWhenTriggered(t, e) == e /\ t

\* The thrown error: nothing of the provider is rendered any more.
Throws(t, e) == e /\ ~t

\* The terminal screen for every status once the timer expired.
TerminalScreenAnyStatus(s, done) == done

TerminalScreen(s, done) == s = "shutting-down" /\ done

\* The switch without its default branch: what is not a transition is the app.
ScreenOfNoDefault(s) ==
    CASE s = "shutting-down" -> "shutting-down"
      [] s = "restarting" -> "restarting"
      [] OTHER -> "children"

ScreenOf(s) ==
    CASE s = Undefined -> "children"
      [] s = "running" -> "children"
      [] s = "shutting-down" -> "shutting-down"
      [] s = "restarting" -> "restarting"
      [] OTHER -> "unexpected-state"

Screen ==
    IF crashed THEN "error-boundary"
    ELSE IF isLoading THEN "checking-backend"
    ELSE IF TerminalScreen(statusToShow, shutdownComplete) THEN "shutdown-complete"
    ELSE ScreenOf(statusToShow)

\* ------------------------------------------------------------ the effects
\* Each guard reads every value its effect depends on and its effect falsifies
\* it, so running an effect whenever its guard holds is running it whenever
\* one of its dependencies changed.
\* The logout owed for every transition observed, triggered here or not.
SetLogoutGuardUntriggered(t, d, flag) == d /= "running" /\ ~flag

SetLogoutGuard(t, d, flag) == d /= "running" /\ t /\ ~flag

GoToLoginGuard(d, flag) == d = "running" /\ flag = TRUE

\* The 30-second timer scheduled again on every failing render.
ShutdownTimerGuardRearmed(d, started, e, fc) ==
    d = "shutting-down" /\ (e \/ fc > 0)

ShutdownTimerGuard(d, started, e, fc) ==
    d = "shutting-down" /\ ~started /\ (e \/ fc > 0)

\* A render of the provider with triggered = t and the query at (d, e, fc),
\* followed by its effects.
Render(t, d, e, fc) ==
    IF Throws(t, e)
    THEN /\ crashed' = TRUE
         /\ refetchInterval' = NoTimer
         /\ UNCHANGED <<prevRef, curRef, shouldLogoutOnRunning, logoutTimers,
                        startShutdownTimer, shutdownTimer, sinceTimerStart>>
    ELSE /\ crashed' = crashed
         /\ prevRef' = IF curRef /= d THEN curRef ELSE prevRef
         /\ curRef' = d
         /\ shouldLogoutOnRunning' =
              IF SetLogoutGuard(t, d, shouldLogoutOnRunning) THEN TRUE
              ELSE IF GoToLoginGuard(d, shouldLogoutOnRunning) THEN FALSE
              ELSE shouldLogoutOnRunning
         /\ logoutTimers' =
              IF GoToLoginGuard(d, shouldLogoutOnRunning)
              THEN Append(logoutTimers, LogoutTicks)
              ELSE logoutTimers
         /\ Len(logoutTimers') <= MaxLogoutTimers
         /\ IF ShutdownTimerGuard(d, startShutdownTimer, e, fc)
            THEN /\ startShutdownTimer' = TRUE
                 /\ shutdownTimer' = ShutdownTicks
                 /\ sinceTimerStart' = 0
            ELSE UNCHANGED <<startShutdownTimer, shutdownTimer, sinceTimerStart>>
         /\ refetchInterval' = RefetchInterval(t)

\* ------------------------------------------------------------- page load
\* The state of a freshly loaded page: the provider mounts and sends its first
\* status request. A restart/shutdown request still on its way has no page to
\* call back; what it does to the backend is a step of BackendLeavesRunning.
PageLoad ==
    /\ triggered' = FALSE
    /\ startShutdownTimer' = FALSE
    /\ shutdownComplete' = FALSE
    /\ data' = Undefined
    /\ qError' = FALSE
    /\ failureCount' = 0
    /\ revertCount' = 0
    /\ inflight' = "sent"
    /\ sentBeforeAction' = FALSE
    /\ refetchInterval' = RefetchInterval(FALSE)
    /\ prevRef' = Undefined
    /\ curRef' = Undefined
    /\ logoutTimers' = <<>>
    /\ shutdownTimer' = NoTimer
    /\ sinceTimerStart' = 0
    /\ crashed' = FALSE
    /\ mutation' = NoMutation

Init ==
    /\ backend = "running"
    /\ mutation = NoMutation
    /\ inflight = "sent"
    /\ sentBeforeAction = FALSE
    /\ data = Undefined
    /\ qError = FALSE
    /\ failureCount = 0
    /\ revertCount = 0
    /\ refetchInterval = RefetchInterval(FALSE)
    /\ triggered = FALSE
    /\ shouldLogoutOnRunning = FALSE
    /\ startShutdownTimer = FALSE
    /\ shutdownComplete = FALSE
    /\ prevRef = Undefined
    /\ curRef = Undefined
    /\ logoutTimers = <<>>
    /\ shutdownTimer = NoTimer
    /\ sinceTimerStart = 0
    /\ crashed = FALSE
    /\ jwt = TRUE
    /\ everInvoked = FALSE

\* ------------------------------------------------------ restart / shutdown
\* An onMutate that leaves triggered as it is.
onMutateForgotten == triggered

\* onMutate: the value setTriggered receives when the action is issued.
onMutate == TRUE

\* restart() or shutdown() of the context, which only the children hold; the
\* children offer them to a logged-in user.
Invoke(kind) ==
    /\ Screen = "children"
    /\ jwt
    /\ mutation = NoMutation
    /\ mutation' = [kind |-> kind, phase |-> "sent"]
    /\ triggered' = onMutate
    /\ sentBeforeAction' = (inflight /= "none")
    /\ everInvoked' = TRUE
    /\ Render(triggered', data, qError, failureCount)
    /\ UNCHANGED <<backend, inflight, data, qError, failureCount, revertCount,
                   shutdownComplete, jwt>>

restart == Invoke("restart")

shutdown == Invoke("shutdown")

TargetOf(kind) == IF kind = "restart" THEN "restarting" ELSE "shutting-down"

\* The backend takes the request and starts the transition.
BackendHandlesMutation ==
    /\ mutation.phase = "sent"
    /\ backend /= "down"
    /\ backend' = TargetOf(mutation.kind)
    /\ mutation' = Accepted
    /\ UNCHANGED <<inflight, sentBeforeAction, data, qError, failureCount, revertCount, refetchInterval,
                   triggered, shouldLogoutOnRunning, startShutdownTimer,
                   shutdownComplete, prevRef, curRef, logoutTimers, shutdownTimer,
                   sinceTimerStart, crashed, jwt, everInvoked>>

\* ctx.system.status.cancel(): a fetch in flight is dropped and the query
\* reverts to its state before the fetch.
CancelledCount == IF inflight /= "none" THEN revertCount ELSE failureCount

onSuccess ==
    /\ mutation.phase = "ok"
    /\ mutation' = NoMutation
    /\ inflight' = "none"
    /\ sentBeforeAction' = FALSE
    /\ failureCount' = CancelledCount
    /\ Render(triggered, data, qError, failureCount')
    /\ UNCHANGED <<backend, data, qError, revertCount, triggered, shutdownComplete, jwt, everInvoked>>

\* The request or its answer is lost: no onError is given, nothing happens.
\* An onError handler that takes the trigger back.
MutationFailsResets ==
    /\ mutation /= NoMutation
    /\ mutation' = NoMutation
    /\ triggered' = FALSE
    /\ refetchInterval' = RefetchInterval(FALSE)
    /\ UNCHANGED <<backend, inflight, sentBeforeAction, data, qError, failureCount, revertCount,
                   shouldLogoutOnRunning, startShutdownTimer,
                   shutdownComplete, prevRef, curRef, logoutTimers, shutdownTimer,
                   sinceTimerStart, crashed, jwt, everInvoked>>

MutationFails ==
    /\ mutation /= NoMutation
    /\ mutation' = NoMutation
    /\ UNCHANGED <<backend, inflight, sentBeforeAction, data, qError, failureCount, revertCount,
                   refetchInterval, triggered, shouldLogoutOnRunning, startShutdownTimer,
                   shutdownComplete, prevRef, curRef, logoutTimers, shutdownTimer,
                   sinceTimerStart, crashed, jwt, everInvoked>>

\* ------------------------------------------------------------ status query
\* The refetch interval fires: a new fetch starts (with one in flight, the
\* interval changes nothing).
PollFires ==
    /\ refetchInterval /= NoTimer
    /\ inflight = "none"
    /\ inflight' = "sent"
    /\ sentBeforeAction' = FALSE
    /\ revertCount' = failureCount
    /\ failureCount' = 0
    /\ Render(triggered, data, qError, failureCount')
    /\ UNCHANGED <<backend, mutation, data, qError, triggered, shutdownComplete, jwt, everInvoked>>

\* The backend answers the status request, or cannot be reached.
BackendReplies ==
    /\ inflight = "sent"
    /\ inflight' = IF backend = "down" THEN "fail" ELSE backend
    /\ UNCHANGED <<backend, mutation, sentBeforeAction, data, qError, failureCount, revertCount,
                   refetchInterval, triggered, shouldLogoutOnRunning, startShutdownTimer,
                   shutdownComplete, prevRef, curRef, logoutTimers, shutdownTimer,
                   sinceTimerStart, crashed, jwt, everInvoked>>

StatusArrives ==
    /\ inflight \in Status
    /\ data' = inflight
    /\ qError' = FALSE
    /\ failureCount' = 0
    /\ inflight' = "none"
    /\ sentBeforeAction' = FALSE
    /\ Render(triggered, data', qError', failureCount')
    /\ UNCHANGED <<backend, mutation, revertCount, triggered, shutdownComplete, jwt, everInvoked>>

\* A failed attempt that the query retries.
FetchFailsAndRetries ==
    /\ inflight = "fail"
    /\ failureCount < MaxRetry
    /\ failureCount' = failureCount + 1
    /\ inflight' = "sent"
    /\ sentBeforeAction' = FALSE
    /\ Render(triggered, data, qError, failureCount')
    /\ UNCHANGED <<backend, mutation, data, qError, revertCount, triggered,
                   shutdownComplete, jwt, everInvoked>>

\* The failed attempt after which the query gives up: the query is in error.
FetchFails ==
    /\ inflight = "fail"
    /\ failureCount' = failureCount + 1
    /\ qError' = TRUE
    /\ inflight' = "none"
    /\ sentBeforeAction' = FALSE
    /\ Render(triggered, data, qError', failureCount')
    /\ UNCHANGED <<backend, mutation, data, revertCount, triggered,
                   shutdownComplete, jwt, everInvoked>>

\* ------------------------------------------------------------------ timers
\* The remaining times of the pending timers.
Pending ==
    {logoutTimers[i] : i \in 1..Len(logoutTimers)} \cup
    (IF shutdownTimer = NoTimer THEN {} ELSE {shutdownTimer})

Min(S) == CHOOSE x \in S : \A y \in S : x <= y

\* Time passes, up to the next deadline: no handler reads the clock, so the
\* instants between two deadlines differ in the countdowns alone. A timer
\* that is due fires before time goes on.
Tick ==
    /\ Pending /= {}
    /\ Min(Pending) > 0
    /\ LET step == Min(Pending) IN
       /\ shutdownTimer' = IF shutdownTimer = NoTimer THEN NoTimer
                           ELSE shutdownTimer - step
       /\ logoutTimers' = [i \in 1..Len(logoutTimers) |-> logoutTimers[i] - step]
       /\ sinceTimerStart' = IF ~startShutdownTimer THEN sinceTimerStart
                             ELSE IF sinceTimerStart + step > ElapsedCap
                             THEN ElapsedCap
                             ELSE sinceTimerStart + step
    /\ UNCHANGED <<backend, mutation, inflight, sentBeforeAction, data, qError, failureCount,
                   revertCount, refetchInterval, triggered, shouldLogoutOnRunning,
                   startShutdownTimer, shutdownComplete, prevRef, curRef, crashed, jwt, everInvoked>>

\* setTimeout(..., 1000) of the logout effect: cancelQueries(), removeJwt() and
\* the navigation to '/', which loads the page anew.
LogoutTimerFires ==
    /\ logoutTimers /= <<>>
    /\ Head(logoutTimers) = 0
    /\ jwt' = FALSE
    /\ PageLoad
    /\ UNCHANGED <<backend, shouldLogoutOnRunning, everInvoked>>

\* setTimeout(() => setShutdownComplete(true), 30 s); a provider that threw
\* has no state left to set.
ShutdownTimerFires ==
    /\ shutdownTimer = 0
    /\ shutdownTimer' = NoTimer
    /\ shutdownComplete' = IF crashed THEN shutdownComplete ELSE TRUE
    /\ UNCHANGED <<backend, mutation, inflight, sentBeforeAction, data, qError, failureCount,
                   revertCount, refetchInterval, triggered, shouldLogoutOnRunning,
                   startShutdownTimer, prevRef, curRef, logoutTimers,
                   sinceTimerStart, crashed, jwt, everInvoked>>

\* ------------------------------------------------------------- environment
Reload ==
    /\ PageLoad
    /\ UNCHANGED <<backend, shouldLogoutOnRunning, jwt, everInvoked>>

Login ==
    /\ ~jwt
    /\ jwt' = TRUE
    /\ UNCHANGED <<backend, mutation, inflight, sentBeforeAction, data, qError, failureCount,
                   revertCount, refetchInterval, triggered, shouldLogoutOnRunning,
                   startShutdownTimer, shutdownComplete, prevRef, curRef,
                   logoutTimers, shutdownTimer, sinceTimerStart, crashed,
                   everInvoked>>

BackendStep(from, to) ==
    /\ backend = from
    /\ backend' = to
    /\ UNCHANGED <<mutation, inflight, sentBeforeAction, data, qError, failureCount, revertCount,
                   refetchInterval, triggered, shouldLogoutOnRunning, startShutdownTimer,
                   shutdownComplete, prevRef, curRef, logoutTimers, shutdownTimer,
                   sinceTimerStart, crashed, jwt, everInvoked>>

\* A transition started by another client, or an update.
BackendLeavesRunning == \E s \in Status \ {"running"} : BackendStep("running", s)

BackendGoesDown == \E s \in {"shutting-down", "restarting"} : BackendStep(s, "down")

BackendBoots == BackendStep("down", "running")

BackendEndsUpdate == BackendStep("updating", "running")

\* Every step but a reload of the page by the user.
OnePage ==
    \/ restart
    \/ shutdown
    \/ BackendHandlesMutation
    \/ onSuccess
    \/ MutationFails
    \/ PollFires
    \/ BackendReplies
    \/ StatusArrives
    \/ FetchFailsAndRetries
    \/ FetchFails
    \/ Tick
    \/ LogoutTimerFires
    \/ ShutdownTimerFires
    \/ Login
    \/ BackendLeavesRunning
    \/ BackendGoesDown
    \/ BackendBoots
    \/ BackendEndsUpdate

Next == OnePage \/ Reload

Spec == Init /\ [][Next]_vars

\* The event loop runs every handler that is due: the interval and the timers
\* fire, time passes, a request gets its answer or fails, and an answer
\* reaches its handler. The backend and the user are under no obligation.
Fairness ==
    /\ WF_vars(PollFires)
    /\ WF_vars(BackendReplies)
    /\ WF_vars(StatusArrives)
    /\ WF_vars(FetchFails)
    /\ WF_vars(BackendHandlesMutation \/ MutationFails)
    /\ WF_vars(onSuccess \/ MutationFails)
    /\ WF_vars(Tick)
    /\ WF_vars(LogoutTimerFires)
    /\ WF_vars(ShutdownTimerFires)

\* The executions of one page: the user does not reload it, only the logout
\* navigation loads it anew.
OnePageSpec == Init /\ [][OnePage]_vars /\ Fairness

\* ------------------------------------------------------------- steps
\* The step is a call of restart() or shutdown().
Issued == mutation.phase = "idle" /\ mutation'.phase = "sent"

\* The step delivers the response of the status request to the provider.
Delivered == inflight \in Status /\ inflight' = "none" /\ mutation' = mutation

\* The step throws the status error to the error boundary.
Thrown == ~crashed /\ crashed'

\* The step schedules the 30-second timer.
TimerStarted == ~startShutdownTimer /\ startShutdownTimer'

\* ------------------------------------------------------------------ C1
\* The backend has taken the restart/shutdown request of this page.
StartedHere == triggered /\ mutation = Accepted

\* C1 (as claimed): when restart() or shutdown() was invoked here and taken by
\* the backend, and the backend is afterwards up again and stays 'running',
\* the client is eventually logged out (the token removed by the logout timer).
C1_EventuallyLoggedOut ==
    (<>[](backend = "running")) => (StartedHere ~> ~jwt)

\* ------------------------------------------------------------------ C2
\* C2 (as claimed): once status is 'running' with shouldLogoutOnRunning set, the
\* logout is scheduled once: while a 1-second logout timer is pending no second
\* one is scheduled, whatever is observed before it fires.
C2_OneLogoutTimer == Len(logoutTimers) <= 1

\* ------------------------------------------------------------------ C3
\* C3: a call of restart() or shutdown() sets triggered in the same step, while
\* the request is still on its way, and the observer then polls every 500 ms;
\* whenever a poll is scheduled its interval is 500 ms if triggered and 10 s
\* if not.
C3_TriggeredAtIssuance ==
    /\ [](refetchInterval /= NoTimer =>
            refetchInterval = IF triggered THEN 500 ELSE 10 * 1000)
    /\ [][Issued => triggered' /\ mutation'.phase = "sent" /\ refetchInterval' = 500]_vars

C3_Witness ==
    triggered /\ mutation.phase = "sent" /\ refetchInterval = 500 /\ inflight = "sent"

\* ------------------------------------------------------------------ C4
\* C4 (as claimed): with triggered, status 'running' and previous status
\* 'shutting-down', the shutting-down (in progress) screen is rendered.
C4_ShuttingDownScreen ==
    (triggered /\ data = "running" /\ prevStatus = "shutting-down")
        => Screen = "shutting-down"

\* C4 (amended): with triggered, status 'running' and previous status
\* 'shutting-down', statusToShow is the previous status and the screen is the
\* shutting-down screen, or the terminal screen once shutdownComplete is true;
\* the children are not rendered.
C4_PreviousScreenKept ==
    (triggered /\ data = "running" /\ prevStatus = "shutting-down")
        => /\ statusToShow = prevStatus
           /\ Screen = IF shutdownComplete THEN "shutdown-complete" ELSE "shutting-down"

C4_Witness ==
    /\ triggered /\ data = "running" /\ prevStatus = "shutting-down"
    /\ ~shutdownComplete /\ Screen = "shutting-down"

\* ------------------------------------------------------------------ C5
\* C5: the terminal screen is rendered only when the 30-second timer was started
\* and at least 30 seconds have passed since; the timer is started only on a
\* render with status 'shutting-down' and a failing probe.
C5_TerminalNotBefore30s ==
    /\ [](Screen = "shutdown-complete" =>
            startShutdownTimer /\ sinceTimerStart * TickMs >= 30 * 1000)
    /\ [][TimerStarted =>
            data' = "shutting-down" /\ (qError' \/ failureCount' > 0)]_vars

C5_Witness ==
    Screen = "shutdown-complete" /\ data = "shutting-down" /\ startShutdownTimer

\* ------------------------------------------------------------------ C6
\* C6: with the status query in error, the provider has thrown to the error
\* boundary if triggered is false, and has not thrown and renders a screen of
\* its own if triggered is true; the render that throws runs no effect.
C6_ErrorsByTriggered ==
    /\ []((qError /\ ~triggered) => Screen = "error-boundary")
    /\ []((qError /\ triggered) =>
            ~crashed /\ Screen \in {"children", "shutting-down", "restarting",
                                    "shutdown-complete", "unexpected-state"})
    /\ [][Thrown => UNCHANGED <<shouldLogoutOnRunning, logoutTimers,
                                startShutdownTimer, shutdownTimer, prevRef, curRef>>]_vars

C6_Witness == qError /\ ~triggered /\ crashed /\ data = "shutting-down"

\* ------------------------------------------------------------------ C7
\* C7: the children (and with them the context) are rendered only when the
\* initial load is over and the last observed status is 'running'; restart()
\* and shutdown() are called only in such a state.
C7_ChildrenOnlyWhenRunning ==
    /\ [](Screen = "children" => ~isLoading /\ data = "running")
    /\ [][Issued => data = "running" /\ Screen = "children"]_vars

C7_Witness ==
    Screen = "children" /\ triggered /\ data = "running" /\ backend = "restarting"

\* ------------------------------------------------------------------ C8
\* C8 (as claimed): a logout owed at a reload completes once the backend is
\* 'running' again, also when the first status queries after the reload fail.
\* So the provider is never left thrown to the error boundary (no poll, no
\* effect and no timer of its own left) with the backend 'running' and the
\* logout still owed.
C8_OwedLogoutNotStranded ==
    ~(crashed /\ shouldLogoutOnRunning /\ logoutTimers = <<>> /\ backend = "running")

\* ------------------------------------------------------------------ C9
\* C9 (as claimed): a 'running' response to a status request sent before
\* restart()/shutdown() was issued is never delivered to the provider after
\* the action was issued.
C9_NoStaleRunning ==
    [][~(Delivered /\ sentBeforeAction /\ triggered /\ inflight = "running")]_vars

\* ------------------------------------------------------------------ C10
\* C10 (as claimed): the terminal message is rendered exactly when the initial
\* load is over, the observed status is 'shutting-down' and shutdownComplete
\* is true.
C10_TerminalIffShuttingDown ==
    Screen = "shutdown-complete"
        <=> (~isLoading /\ data = "shutting-down" /\ shutdownComplete)

\* C10 (amended): the terminal message is rendered exactly when the provider
\* has not thrown, shutdownComplete is true and either the observed status is
\* 'shutting-down', or it is 'running' with triggered true and the previous
\* status 'shutting-down'.
C10_TerminalIffShown ==
    Screen = "shutdown-complete"
        <=> /\ ~crashed
            /\ shutdownComplete
            /\ \/ data = "shutting-down"
               \/ data = "running" /\ triggered /\ prevRef = "shutting-down"

C10_Witness ==
    Screen = "shutdown-complete" /\ data = "running" /\ triggered

\* ------------------------------------------------------------------ C11
\* C11 (as claimed): whenever the observed status is undefined, the
\* "checking backend" placeholder is what is rendered.
C11_UndefinedIsPlaceholder ==
    data = Undefined => Screen = "checking-backend"

\* C11 (amended): whenever the observed status is undefined, either the query
\* is loading and the placeholder is rendered, or the query is in error with
\* triggered false and the provider has thrown; the children and the
\* transition screens are never rendered, and the switch is never reached
\* with an undefined status.
C11_UndefinedIsPlaceholderOrThrown ==
    data = Undefined =>
        /\ ~triggered
        /\ isLoading <=> ~crashed
        /\ isLoading => Screen = "checking-backend"
        /\ crashed => Screen = "error-boundary" /\ qError

\* The placeholder is on screen while a failed first request is retried.
C11_Witness ==
    data = Undefined /\ Screen = "checking-backend" /\ failureCount > 0

\* ------------------------------------------------------------------ C12
\* The observed status is none of 'running', 'shutting-down', 'restarting'.
UnknownStatus == data \in Status \ KnownStatus

\* C12 (as claimed): for a status outside the three known values the
\* "Unexpected state" fallback is rendered and nothing is thrown, for every
\* value of the flags.
C12_UnknownIsFallback ==
    UnknownStatus => Screen = "unexpected-state"

\* C12 (amended): for a status outside the three known values the
\* "Unexpected state" fallback is rendered, unless the status query is in
\* error with triggered false and the provider has thrown for that; the
\* children are never rendered.
C12_UnknownIsFallbackOrThrown ==
    UnknownStatus =>
        /\ ~crashed => Screen = "unexpected-state"
        /\ crashed => Screen = "error-boundary" /\ qError /\ ~triggered

\* The fallback is on screen for a page that triggered a transition and whose
\* 30-second timer has expired.
C12_Witness ==
    UnknownStatus /\ Screen = "unexpected-state" /\ triggered /\ shutdownComplete

\* ------------------------------------------------------------------ C13
\* The step is the callback of the 1-second timer: it removes the token and
\* navigates to '/'.
LoggedOut == logoutTimers /= <<>> /\ Head(logoutTimers) = 0 /\ jwt /\ ~jwt'

\* C13 (as claimed): when the logout timer fires and navigates, the persisted
\* shouldLogoutOnRunning is false, whatever status was observed during the
\* 1-second window.
C13_FlagClearAtNavigation ==
    [][LoggedOut => ~shouldLogoutOnRunning]_vars

\* ------------------------------------------------------------------ C14
\* The backend is seen 'running' again and the forced logout is still to come.
LogoutPending == data = "running" /\ logoutTimers /= <<>>

\* C14 (as claimed): while the backend is back online and the forced logout
\* has not happened yet, the children are not rendered.
C14_NoChildrenBeforeLogout ==
    LogoutPending => Screen /= "children"

\* ------------------------------------------------------------------ C15
\* The step persists shouldLogoutOnRunning = true.
FlagSet == ~shouldLogoutOnRunning /\ shouldLogoutOnRunning'

\* C15: shouldLogoutOnRunning goes from false to true only in a render with
\* triggered true and a status other than 'running'; so a logout is owed,
\* scheduled or carried out only if restart()/shutdown() was invoked from
\* this browser, in this page load or an earlier one.
C15_LogoutOnlyIfInvoked ==
    /\ [][FlagSet => triggered /\ triggered' /\ data' /= "running"]_vars
    /\ [][LoggedOut => everInvoked]_vars
    /\ []((shouldLogoutOnRunning \/ logoutTimers /= <<>>) => everInvoked)

\* The flag is set for a restart the backend took from this page.
C15_Witness ==
    /\ shouldLogoutOnRunning
    /\ triggered
    /\ data = "restarting"
    /\ mutation = Accepted

\* ------------------------------------------------------------------ C16
\* The step stays within the page load: no observed status is discarded.
SamePage == data = Undefined \/ data' /= Undefined

\* C16: within one page load the 30-second timer is scheduled at most once,
\* and only in a render with status 'shutting-down', a failing probe and
\* startShutdownTimer false; startShutdownTimer and shutdownComplete never
\* return to false, and shutdownComplete is true only if startShutdownTimer is.
C16_ShutdownTimerOneShot ==
    /\ [][shutdownTimer' > shutdownTimer => TimerStarted]_vars
    /\ [][TimerStarted => /\ data' = "shutting-down"
                          /\ qError' \/ failureCount' > 0
                          /\ shutdownTimer' = ShutdownTicks]_vars
    /\ [][SamePage /\ startShutdownTimer => startShutdownTimer']_vars
    /\ [][SamePage /\ shutdownComplete => shutdownComplete']_vars
    /\ [](shutdownComplete => startShutdownTimer)
    /\ [](data = Undefined => ~startShutdownTimer)

\* The timer has run out, and the probe is failing still.
C16_Witness ==
    /\ shutdownComplete
    /\ startShutdownTimer
    /\ shutdownTimer = NoTimer
    /\ data = "shutting-down"
    /\ qError

\* ------------------------------------------------------------------ C17
\* shutdown() has been invoked from this page.
ShutdownInvoked == triggered /\ mutation.kind = "shutdown"

\* C17 (as claimed): when shutdown() was invoked and the backend stops
\* responding for good, the terminal "shutdown (probably) complete" screen
\* is eventually shown and stays shown.
C17_ShutdownEndsOnTerminalScreen ==
    (<>[](backend = "down"))
        => (ShutdownInvoked ~> [](Screen = "shutdown-complete"))

\* ------------------------------------------------------------------ C18
\* C18: within one page load triggered never returns to false, whatever
\* becomes of the mutation and of the backend; it is false again only on a
\* newly loaded page. So from restart()/shutdown() on, the status is polled
\* every 500 ms until the page is loaded anew.
C18_TriggeredMonotonic ==
    /\ [][triggered /\ SamePage => triggered']_vars
    /\ [][triggered /\ ~triggered' => data' = Undefined /\ inflight' = "sent"]_vars
    /\ [](triggered => data /= Undefined /\ refetchInterval = TriggeredPollMs)

\* The mutation failed and no transition was ever observed: triggered is
\* true and the fast polling goes on, over a backend that runs.
C18_Witness ==
    /\ triggered
    /\ mutation = NoMutation
    /\ backend = "running"
    /\ data = "running"
    /\ prevRef = Undefined
    /\ ~shouldLogoutOnRunning
    /\ logoutTimers = <<>>
    /\ refetchInterval = TriggeredPollMs

====
